---- MODULE Spec2Model ----
(***************************************************************************)
(* Kuo's algorithm (src/kuos_algorithm/new_kuo.py): the SGraph store with  *)
(* its in-degree cache and restore stack, the implication cascade, the     *)
(* candidate ranking and the backtracking driver-set search.               *)
(*                                                                         *)
(* The SGraph object is the record `graph`; the Python call stack of the   *)
(* two recursive functions is the sequence `stack`.  Every state of the    *)
(* search is a stable point: a call of, or a return from, implication or   *)
(* run_combination (or the start / the end of kuos_algorithm).             *)
(* The first version of the search (src/kuos_algorithm/kuo.py) is modelled *)
(* by the Kuo... actions, on the same variables.                           *)
(***************************************************************************)
EXTENDS Integers, Sequences, FiniteSets, TLC

\* Bounds of the model: node identifiers 1..MaxNode, at most MaxEdges edges
\* in a searched graph, at most MaxStoreEdges in a graph whose store is
\* called directly.
MaxNode == 3
MaxEdges == 4
MaxStoreEdges == 3
MaxStack == 2

\* new_kuo.py line 148: buffer = min(10, len(scored_candidates))
BufferCap == 10

VARIABLES
    graph,     \* the SGraph object: nodes, edges, _in_degree_cache, reachable, sets, _edge_restore_stack
    input,     \* the edge list the graph was constructed from
    stack,     \* call stack of run_combination / implication frames (top = last)
    pc,        \* position in kuos_algorithm: "start", "loop", "call", "done"; "api" for direct store calls
    k,         \* loop variable of kuos_algorithm
    ret,       \* value handed back by the call that has just returned
    result,    \* what kuos_algorithm returned
    tried,     \* history: the (k, value) of every top-level run_combination call
    api,       \* history: the last direct store call and its outcome
    marks      \* history: marks[i] is the store when the restore stack last had i-1 entries

vars == <<graph, input, stack, pc, k, ret, result, tried, api, marks>>

Min(a, b) == IF a < b THEN a ELSE b

NodeIds == 1..MaxNode

\* Where a value computed by the code is used more than once, it is bound
\* once by a quantifier over a one-element set (\E x \in {e} : ..., or
\* CHOOSE R \in {F(x) : x \in {e}} : TRUE): the Python code computes it once.

\* all sequences that enumerate the finite set S once each
RECURSIVE Orders(_)
Orders(S) ==
    IF S = {} THEN {<<>>}
    ELSE UNION {{<<x>> \o p : p \in Orders(S \ {x})} : x \in S}

(***************************************************************************)
(* SGraph                                                                  *)
(***************************************************************************)
EndPoints(E) == {e[1] : e \in E} \cup {e[2] : e \in E}

in_degree(G, v) == Cardinality({e \in G.edges : e[2] = v})

out_degree(G, u) == Cardinality({e \in G.edges : e[1] = u})

successors(G, u) == {e[2] : e \in {d \in G.edges : d[1] = u}}

\* _refresh_degree_cache: dict(self.in_degree())
_refresh_degree_cache(G) ==
    [G EXCEPT !.cache = [v \in G.nodes |-> in_degree(G, v)]]

\* SGraph(iterable): the nodes are the end points of the edges
SGraph(E) ==
    _refresh_degree_cache(
        [nodes |-> EndPoints(E), edges |-> E, cache |-> <<>>,
         reachable |-> {}, sets |-> <<>>, rstack |-> <<>>])

\* get_zero_indegree_nodes(exclude_reachable=True)
get_zero_indegree_nodes(G) ==
    {n \in DOMAIN G.cache : G.cache[n] = 0} \ G.reachable

\* remove_edge that forgets the in-degree update of line 37
remove_edge_no_cache(G, u, v) ==
    IF <<u, v>> \notin G.edges
    THEN [graph |-> G, raised |-> "NetworkXError"]
    ELSE [graph |-> [G EXCEPT !.edges = @ \ {<<u, v>>},
                              !.rstack = Append(@, <<u, v>>)],
          raised |-> "none"]

\* remove_edge that pushes the edge before networkx looks for it
remove_edge_push_first(G, u, v) ==
    IF <<u, v>> \notin G.edges
    THEN [graph |-> [G EXCEPT !.rstack = Append(@, <<u, v>>)],
          raised |-> "NetworkXError"]
    ELSE [graph |-> [G EXCEPT !.edges = @ \ {<<u, v>>},
                              !.rstack = Append(@, <<u, v>>),
                              !.cache[v] = @ - 1],
          raised |-> "none"]

\* remove_edge: networkx raises NetworkXError for a missing edge, before
\* anything is pushed or decremented
remove_edge(G, u, v) ==
    IF <<u, v>> \notin G.edges
    THEN [graph |-> G, raised |-> "NetworkXError"]
    ELSE [graph |-> [G EXCEPT !.edges = @ \ {<<u, v>>},
                              !.rstack = Append(@, <<u, v>>),
                              !.cache[v] = @ - 1],
          raised |-> "none"]

\* restore_edge without the guard of line 42: list.pop() of an empty list raises
restore_edge_unguarded(G) ==
    IF G.rstack = <<>>
    THEN [graph |-> G, value |-> "none", raised |-> "IndexError"]
    ELSE LET e == G.rstack[Len(G.rstack)] IN
         [graph |-> [G EXCEPT !.rstack = SubSeq(@, 1, Len(@) - 1),
                              !.edges = @ \cup {e},
                              !.cache[e[2]] = @ + 1],
          value |-> "edge", raised |-> "none"]

\* restore_edge that forgets the in-degree update of line 47
restore_edge_no_cache(G) ==
    IF G.rstack = <<>>
    THEN [graph |-> G, value |-> "None", raised |-> "none"]
    ELSE LET e == G.rstack[Len(G.rstack)] IN
         [graph |-> [G EXCEPT !.rstack = SubSeq(@, 1, Len(@) - 1),
                              !.edges = @ \cup {e}],
          value |-> "edge", raised |-> "none"]

\* restore_edge: returns None on an empty stack, else pops, re-adds, increments
restore_edge(G) ==
    IF G.rstack = <<>>
    THEN [graph |-> G, value |-> "None", raised |-> "none"]
    ELSE LET e == G.rstack[Len(G.rstack)] IN
         [graph |-> [G EXCEPT !.rstack = SubSeq(@, 1, Len(@) - 1),
                              !.edges = @ \cup {e},
                              !.cache[e[2]] = @ + 1],
          value |-> "edge", raised |-> "none"]

\* for _ in range(edge_count): graph.restore_edge()
RECURSIVE restore_edges(_, _)
restore_edges(G, n) ==
    IF n <= 0 THEN G
    ELSE CHOOSE R \in {restore_edges(G1, n - 1) : G1 \in {restore_edge(G).graph}} : TRUE

\* the successor_list a call of remove_node_successors(S) can build: the
\* nodes of S in the iteration order of the Python set, each followed by its
\* successors in the order of the adjacency dict; every order is possible
RECURSIVE ConcatOrders(_, _)
ConcatOrders(G, ns) ==
    IF ns = <<>> THEN {<<>>}
    ELSE {a \o b : a \in Orders({e \in G.edges : e[1] = Head(ns)}),
                   b \in ConcatOrders(G, Tail(ns))}

SuccessorLists(G, S) == UNION {ConcatOrders(G, ns) : ns \in Orders(S)}

\* for (u, v) in successor_list: self.remove_edge(u, v)
RECURSIVE remove_edges(_, _)
remove_edges(G, list) ==
    IF list = <<>> THEN G
    ELSE CHOOSE R \in {remove_edges(G1, Tail(list)) :
                          G1 \in {remove_edge(G, Head(list)[1], Head(list)[2]).graph}} : TRUE

\* remove_node_successors, for the successor_list it built
remove_node_successors(G, list) ==
    [graph |-> remove_edges(G, list), count |-> Len(list)]

(***************************************************************************)
(* Candidate ranking                                                       *)
(***************************************************************************)
\* score_node without the bonus for newly reached successors
score_node_no_boost(G, node) == out_degree(G, node) - in_degree(G, node)

score_node(G, node) ==
    LET new_successors == successors(G, node) \ G.reachable
        base_score == out_degree(G, node) - in_degree(G, node)
        reach_score == Cardinality(new_successors) * 2
    IN base_score + reach_score

\* a tuple order that lets the smaller node win a tie in score
TupleGreater_low_node_first(a, b) == a[1] > b[1] \/ (a[1] = b[1] /\ a[2] < b[2])

\* Python's order on the tuples (score, node)
TupleGreater(a, b) == a[1] > b[1] \/ (a[1] = b[1] /\ a[2] > b[2])

\* heapq.nlargest(n, items): the n largest items, largest first
RECURSIVE nlargest(_, _)
nlargest(n, items) ==
    IF n <= 0 \/ items = {} THEN <<>>
    ELSE CHOOSE R \in
            {<<m>> \o nlargest(n - 1, items \ {m}) :
                m \in {x \in items : \A y \in items \ {x} : TupleGreater(x, y)}} : TRUE

\* find_candidates that returns k_remaining nodes only (no buffer)
find_candidates_no_buffer(G, k_remaining) ==
    LET candidates == G.nodes \ G.reachable
        scored_candidates == {<<score_node(G, node), node>> : node \in candidates}
        top == nlargest(k_remaining, scored_candidates)
    IN [i \in 1..Len(top) |-> top[i][2]]

find_candidates(G, k_remaining) ==
    LET candidates == G.nodes \ G.reachable
        scored_candidates == {<<score_node(G, node), node>> : node \in candidates}
        buffer == Min(BufferCap, Cardinality(scored_candidates))
    IN CHOOSE R \in {[i \in 1..Len(top) |-> top[i][2]] :
                       top \in {nlargest(k_remaining + buffer, scored_candidates)}} : TRUE

(***************************************************************************)
(* Bodies of implication and run_combination between two calls             *)
(***************************************************************************)
\* implication that appends the level but forgets graph.reachable.update(s_i)
impl_extend_no_update(G, s_i, list) ==
    remove_node_successors([G EXCEPT !.sets = Append(@, s_i)], list)

\* implication, lines 110-117: append the level, remove its outgoing edges
impl_extend(G, s_i, list) ==
    remove_node_successors(
        [G EXCEPT !.sets = Append(@, s_i), !.reachable = @ \cup s_i], list)

\* the backtrack of implication without graph.sets.pop()
impl_backtrack_no_pop(G, s_i, edge_count) ==
    restore_edges([G EXCEPT !.reachable = @ \ s_i], edge_count)

\* implication, lines 127-130: the backtrack
impl_backtrack(G, s_i, edge_count) ==
    restore_edges(
        [G EXCEPT !.sets = SubSeq(@, 1, Len(@) - 1), !.reachable = @ \ s_i],
        edge_count)

\* run_combination, lines 172-176: add the node to S0, remove its outgoing edges
run_extend(G, node, list) ==
    remove_node_successors(
        [G EXCEPT !.sets[1] = @ \cup {node}, !.reachable = @ \cup {node}], list)

\* the backtrack of run_combination that restores no edge
run_backtrack_no_restore(G, node, edge_count) ==
    [G EXCEPT !.sets[1] = @ \ {node}, !.reachable = @ \ {node}]

\* the backtrack of run_combination that leaves the node in graph.sets[0]
run_backtrack_keep_in_s0(G, node, edge_count) ==
    restore_edges([G EXCEPT !.reachable = @ \ {node}], edge_count)

\* run_combination, lines 186-189: the backtrack
run_backtrack(G, node, edge_count) ==
    restore_edges(
        [G EXCEPT !.sets[1] = @ \ {node}, !.reachable = @ \ {node}], edge_count)

\* run_combination, lines 166-169: the next candidate that is not reachable
RECURSIVE NextCandidate(_, _, _)
NextCandidate(G, candidates, i) ==
    IF i > Len(candidates) THEN i
    ELSE IF candidates[i] \in G.reachable THEN NextCandidate(G, candidates, i + 1)
    ELSE i

\* kuos_algorithm, lines 199-206
\* an initialisation that leaves the outgoing edges of s_0 in the graph
kuos_init_no_removal(G, list) ==
    [G EXCEPT !.sets = <<get_zero_indegree_nodes(G)>>,
              !.reachable = get_zero_indegree_nodes(G)]

kuos_init(G, list) ==
    LET s_0 == get_zero_indegree_nodes(G)
    IN remove_node_successors([G EXCEPT !.sets = <<s_0>>, !.reachable = s_0], list).graph

\* range(k0, len(graph.nodes)) as in kuo.py: stops one short
range_stop_short(G) == Cardinality(G.nodes)

\* kuos_algorithm, line 212: range(k0, len(graph.nodes) + 1) stops before this
range_stop(G) == Cardinality(G.nodes) + 1

\* a loop that steps k by two
range_step_two(kk) == kk + 2

\* kuos_algorithm, line 212: the next value of range()
range_step(kk) == kk + 1

(***************************************************************************)
(* Call stack                                                              *)
(***************************************************************************)
NoFrame ==
    [fn |-> "none", pcf |-> "none", k |-> 0, candidates |-> <<>>,
     idx |-> 0, node |-> 0, s_i |-> {}, edge_count |-> 0, at_call |-> <<>>]

\* ret.frame is the frame of the call that returned
NoRet == [fn |-> "none", value |-> FALSE, frame |-> NoFrame]

NoResult == [driver |-> {}, completed |-> FALSE, via |-> "none"]

NoApi == [op |-> "none", absent |-> FALSE, empty |-> FALSE, value |-> "none",
          raised |-> "none", peak |-> 0, before |-> <<>>]

\* a new frame; at_call records the graph at the moment of the call
RunFrame(kk, G) ==
    [fn |-> "run_combination", pcf |-> "entry", k |-> kk, candidates |-> <<>>,
     idx |-> 0, node |-> 0, s_i |-> {}, edge_count |-> 0, at_call |-> G]

ImplFrame(G) ==
    [fn |-> "implication", pcf |-> "entry", k |-> 0, candidates |-> <<>>,
     idx |-> 0, node |-> 0, s_i |-> {}, edge_count |-> 0, at_call |-> G]

Top == stack[Len(stack)]

Pop == SubSeq(stack, 1, Len(stack) - 1)

SetTop(f) == [stack EXCEPT ![Len(stack)] = f]

Return(v) ==
    /\ stack' = Pop
    /\ ret' = [fn |-> Top.fn, value |-> v, frame |-> Top]

(***************************************************************************)
(* kuos_algorithm                                                          *)
(***************************************************************************)
\* lines 196-206
KuosStart ==
    /\ pc = "start"
    /\ \E list \in SuccessorLists(graph, get_zero_indegree_nodes(graph)) :
          graph' = kuos_init(graph, list)
    /\ k' = Cardinality(get_zero_indegree_nodes(graph))
    /\ pc' = "loop"
    /\ UNCHANGED <<input, stack, ret, result, tried, api, marks>>

\* a timeout return that hands back an empty set
timeout_return_empty(G) ==
    [driver |-> {}, completed |-> FALSE, via |-> "timeout"]

\* lines 214-217: return graph.sets[0], False
timeout_return(G) ==
    [driver |-> G.sets[1], completed |-> FALSE, via |-> "timeout"]

\* lines 212-223 and 231: the top of one iteration; `expired` is the outcome
\* of the comparison with the wall clock
KuosLoop ==
    /\ pc = "loop"
    /\ \E expired \in BOOLEAN :
          IF ~(k < range_stop(graph))
          THEN /\ result' = [driver |-> {}, completed |-> FALSE, via |-> "exhausted"]
               /\ pc' = "done"
               /\ UNCHANGED stack
          ELSE IF expired
          THEN /\ result' = timeout_return(graph)
               /\ pc' = "done"
               /\ UNCHANGED stack
          ELSE /\ stack' = <<RunFrame(k, graph)>>
               /\ pc' = "call"
               /\ UNCHANGED result
    /\ UNCHANGED <<graph, input, k, ret, tried, api, marks>>

\* lines 223-228: run_combination(k) has returned
KuosResume ==
    /\ pc = "call"
    /\ stack = <<>>
    /\ ret.fn = "run_combination"
    /\ tried' = Append(tried, [k |-> k, value |-> ret.value])
    /\ IF ret.value
       THEN /\ result' = [driver |-> graph.sets[1], completed |-> TRUE, via |-> "found"]
            /\ pc' = "done"
            /\ UNCHANGED k
       ELSE /\ k' = range_step(k)
            /\ pc' = "loop"
            /\ UNCHANGED result
    /\ ret' = NoRet
    /\ UNCHANGED <<graph, input, stack, api, marks>>

(***************************************************************************)
(* run_combination                                                         *)
(***************************************************************************)
\* lines 166-191 from candidate number i on, with G the graph at that point:
\* either the loop ends and the function returns False, or the next candidate
\* is added and run_combination is called again
TryFrom(frame, i, G) ==
    \E j \in {NextCandidate(G, frame.candidates, i)} :
    IF j > Len(frame.candidates)
    THEN /\ graph' = G
         /\ stack' = Pop
         /\ ret' = [fn |-> frame.fn, value |-> FALSE, frame |-> frame]
    ELSE LET node == frame.candidates[j] IN
         \E list \in SuccessorLists(G, {node}) :
            \E r \in {run_extend(G, node, list)} :
            /\ graph' = r.graph
            /\ stack' = Append(SetTop([frame EXCEPT !.pcf = "wait", !.idx = j,
                                                    !.node = node,
                                                    !.edge_count = r.count]),
                               RunFrame(frame.k, r.graph))
            /\ ret' = NoRet

\* lines 154-179: the call
RunCall ==
    /\ pc = "call"
    /\ stack # <<>>
    /\ Top.fn = "run_combination"
    /\ Top.pcf = "entry"
    /\ LET s_0 == graph.sets[1]
           k0 == Cardinality(s_0)
       IN IF k0 >= Top.k
          THEN /\ stack' = Append(SetTop([Top EXCEPT !.pcf = "tail"]), ImplFrame(graph))
               /\ ret' = NoRet
               /\ UNCHANGED graph
          ELSE \E candidates \in {find_candidates(graph, Top.k - k0)} :
                  TryFrom([Top EXCEPT !.candidates = candidates], 1, graph)
    /\ UNCHANGED <<input, pc, k, result, tried, api, marks>>

\* line 161: return implication(graph, debug_mode)
RunTail ==
    /\ pc = "call"
    /\ stack # <<>>
    /\ Top.fn = "run_combination"
    /\ Top.pcf = "tail"
    /\ ret.fn = "implication"
    /\ Return(ret.value)
    /\ UNCHANGED <<graph, input, pc, k, result, tried, api, marks>>

\* lines 179-191: the recursive call has returned
RunResume ==
    /\ pc = "call"
    /\ stack # <<>>
    /\ Top.fn = "run_combination"
    /\ Top.pcf = "wait"
    /\ ret.fn = "run_combination"
    /\ IF ret.value
       THEN Return(TRUE) /\ UNCHANGED graph
       ELSE \E G \in {run_backtrack(graph, Top.node, Top.edge_count)} :
               TryFrom(Top, Top.idx + 1, G)
    /\ UNCHANGED <<input, pc, k, result, tried, api, marks>>

(***************************************************************************)
(* implication                                                             *)
(***************************************************************************)
\* lines 100-120 and 133-136: the call
ImplCall ==
    /\ pc = "call"
    /\ stack # <<>>
    /\ Top.fn = "implication"
    /\ Top.pcf = "entry"
    /\ IF Cardinality(graph.reachable) = Cardinality(graph.nodes)
       THEN Return(TRUE) /\ UNCHANGED graph
       ELSE \E s_i \in {get_zero_indegree_nodes(graph)} :
            IF s_i = {}
            THEN Return(FALSE) /\ UNCHANGED graph
            ELSE \E list \in SuccessorLists(graph, s_i) :
                    \E r \in {impl_extend(graph, s_i, list)} :
                    /\ graph' = r.graph
                    /\ stack' = Append(SetTop([Top EXCEPT !.pcf = "wait", !.s_i = s_i,
                                                          !.edge_count = r.count]),
                                       ImplFrame(r.graph))
                    /\ ret' = NoRet
    /\ UNCHANGED <<input, pc, k, result, tried, api, marks>>

\* lines 120-132: the recursive call has returned
ImplResume ==
    /\ pc = "call"
    /\ stack # <<>>
    /\ Top.fn = "implication"
    /\ Top.pcf = "wait"
    /\ ret.fn = "implication"
    /\ IF ret.value
       THEN Return(TRUE) /\ UNCHANGED graph
       ELSE /\ graph' = impl_backtrack(graph, Top.s_i, Top.edge_count)
            /\ Return(FALSE)
    /\ UNCHANGED <<input, pc, k, result, tried, api, marks>>

(***************************************************************************)
(* The search, on every small graph and on some longer chains              *)
(***************************************************************************)
Pairs == NodeIds \X NodeIds

SmallGraphs == {E \in SUBSET Pairs : Cardinality(E) <= MaxEdges}

\* a path 1 -> 2 -> ... -> n whose last node has an edge to itself: the
\* cascade from the source peels n - 2 levels and then meets a dead end
ChainGraph(n) == {<<i, i + 1>> : i \in 1..(n - 1)} \cup {<<n, n>>}

ChainGraphs == {ChainGraph(n) : n \in 4..6}

\* the acyclic example A -> B, B -> C, D -> C with A, B, C, D as 1, 2, 3, 4
ExampleGraph == {<<1, 2>>, <<2, 3>>, <<4, 3>>}

InitWith(E) ==
    /\ graph = SGraph(E)
    /\ input = E
    /\ stack = <<>>
    /\ pc = "start"
    /\ k = 0
    /\ ret = NoRet
    /\ result = NoResult
    /\ tried = <<>>
    /\ api = NoApi
    /\ marks = <<>>

Init == \E E \in SmallGraphs \cup ChainGraphs \cup {ExampleGraph} : InitWith(E)

Next ==
    \/ KuosStart
    \/ KuosLoop
    \/ KuosResume
    \/ RunCall
    \/ RunTail
    \/ RunResume
    \/ ImplCall
    \/ ImplResume

Spec == Init /\ [][Next]_vars

(***************************************************************************)
(* Direct calls of the store: remove_edge and restore_edge in any order    *)
(***************************************************************************)
StoreGraphs == {E \in SUBSET Pairs : Cardinality(E) <= MaxStoreEdges}

StoreOf(G) == [edges |-> G.edges, cache |-> G.cache]

InitStore ==
    /\ \E E \in StoreGraphs : graph = SGraph(E) /\ input = E
    /\ stack = <<>>
    /\ pc = "api"
    /\ k = 0
    /\ ret = NoRet
    /\ result = NoResult
    /\ tried = <<>>
    /\ api = NoApi
    /\ marks = <<StoreOf(graph)>>

\* graph.remove_edge(u, v)
ApiRemoveEdge ==
    /\ pc = "api"
    /\ \E u \in graph.nodes, v \in graph.nodes :
          LET r == remove_edge(graph, u, v) IN
          /\ graph' = r.graph
          /\ api' = [op |-> "remove_edge", absent |-> <<u, v>> \notin graph.edges,
                     empty |-> graph.rstack = <<>>,
                     value |-> "None", raised |-> r.raised,
                     peak |-> IF Len(r.graph.rstack) > api.peak
                              THEN Len(r.graph.rstack) ELSE api.peak,
                     before |-> graph]
          /\ marks' = IF r.raised = "none" THEN Append(marks, StoreOf(r.graph))
                      ELSE marks
    /\ UNCHANGED <<input, stack, pc, k, ret, result, tried>>

\* graph.restore_edge()
ApiRestoreEdge ==
    /\ pc = "api"
    /\ LET r == restore_edge(graph) IN
       /\ graph' = r.graph
       /\ api' = [op |-> "restore_edge", absent |-> FALSE,
                  empty |-> graph.rstack = <<>>,
                  value |-> r.value, raised |-> r.raised,
                  peak |-> IF graph.rstack = <<>> THEN 0 ELSE api.peak,
                  before |-> graph]
       /\ marks' = IF graph.rstack = <<>> THEN marks
                   ELSE SubSeq(marks, 1, Len(marks) - 1)
    /\ UNCHANGED <<input, stack, pc, k, ret, result, tried>>

NextStore ==
    \/ ApiRemoveEdge
    \/ ApiRestoreEdge

SpecStore == InitStore /\ [][NextStore]_vars

\* graph.add_edge(u, v): SGraph defines no add_edge, the call runs
\* networkx.DiGraph.add_edge, which knows nothing of _in_degree_cache
add_edge(G, u, v) == [G EXCEPT !.edges = @ \cup {<<u, v>>}]

\* graph.add_edge(u, v) between nodes of the graph
ApiAddEdge ==
    /\ pc = "api"
    /\ Cardinality(graph.edges) < MaxStoreEdges
    /\ \E u \in graph.nodes, v \in graph.nodes :
          /\ graph' = add_edge(graph, u, v)
          /\ api' = [op |-> "add_edge", absent |-> <<u, v>> \notin graph.edges,
                     empty |-> graph.rstack = <<>>,
                     value |-> "None", raised |-> "none",
                     peak |-> api.peak, before |-> graph]
    /\ UNCHANGED <<input, stack, pc, k, ret, result, tried, marks>>

\* graph.remove_edge(u, v) while the restore stack is below MaxStack
ApiRemoveEdgeCapped ==
    /\ Len(graph.rstack) < MaxStack
    /\ ApiRemoveEdge

NextStoreAdd ==
    \/ ApiAddEdge
    \/ ApiRemoveEdgeCapped
    \/ ApiRestoreEdge

SpecStoreAdd == InitStore /\ [][NextStoreAdd]_vars

\* the interpreter runs the search to its end
FairSpec == Spec /\ WF_vars(Next)

(***************************************************************************)
(* The search, on the same graphs and on one graph with more than         *)
(* BufferCap + 1 candidates                                                *)
(***************************************************************************)
\* twelve nodes without a source: two chains 1..5 and 6..11 hanging off the
\* hub 12, every chain node pointing back to the hub; the hub alone breaks
\* every cycle and has the lowest score
WideGraph ==
    {<<12, 1>>, <<12, 6>>}
    \cup {<<i, i + 1>> : i \in (1..4) \cup (6..10)}
    \cup {<<i, 12>> : i \in 1..11}

InitWide ==
    \E E \in SmallGraphs \cup ChainGraphs \cup {ExampleGraph, WideGraph} : InitWith(E)

SpecWide == InitWide /\ [][Next]_vars

(***************************************************************************)
(* The cascade as a function, for checking a returned driver set afresh    *)
(***************************************************************************)
\* one of the successor lists remove_node_successors(S) can build
SomeSuccessorList(G, S) == CHOOSE list \in SuccessorLists(G, S) : TRUE

\* implication (lines 97-136) run to its end: the value returned and the graph left
RECURSIVE implication(_)
implication(G) ==
    IF Cardinality(G.reachable) = Cardinality(G.nodes)
    THEN [value |-> TRUE, graph |-> G]
    ELSE LET s_i == get_zero_indegree_nodes(G) IN
         IF s_i = {}
         THEN [value |-> FALSE, graph |-> G]
         ELSE LET r == impl_extend(G, s_i, SomeSuccessorList(G, s_i))
                  sub == implication(r.graph)
              IN IF sub.value
                 THEN sub
                 ELSE [value |-> FALSE,
                       graph |-> impl_backtrack(sub.graph, s_i, r.count)]

\* a fresh copy of the input graph with reachable = D and D's outgoing edges removed
FreshWith(D) ==
    LET G1 == [SGraph(input) EXCEPT !.sets = <<D>>, !.reachable = D]
    IN remove_node_successors(G1, SomeSuccessorList(G1, D)).graph

\* the cascade from D returns True and reaches every node
Covers(D) ==
    LET r == implication(FreshWith(D))
    IN r.value /\ r.graph.reachable = r.graph.nodes

\* the initial zero-in-degree set of the input graph and its size
S0 == get_zero_indegree_nodes(SGraph(input))

K0 == Cardinality(S0)

Returned == pc = "done"

(***************************************************************************)
(* kuo.py: the first version of the search.  Its SGraph has no in-degree   *)
(* cache, run_combination walks over every node outside S0 and calls       *)
(* itself with k - 1, and kuos_algorithm has no budget.  The module-level  *)
(* G that remove_successors reads is the graph the algorithm runs on.      *)
(***************************************************************************)
\* kuo.py lines 7-15
kuo_SGraph(E) ==
    [nodes |-> EndPoints(E), edges |-> E, reachable |-> {}, sets |-> <<>>,
     rstack |-> <<>>]

\* kuo.py lines 64-68 and 129-133: the nodes of in-degree 0 outside reachable
kuo_zero_indegree(G) ==
    {node \in G.nodes \ G.reachable : in_degree(G, node) = 0}

\* kuo.py lines 18-21, for each edge of successor_list (lines 53-54)
RECURSIVE kuo_remove_edges(_, _)
kuo_remove_edges(G, list) ==
    IF list = <<>> THEN G
    ELSE CHOOSE R \in
            {kuo_remove_edges(G1, Tail(list)) :
                G1 \in {[G EXCEPT !.edges = @ \ {Head(list)},
                                  !.rstack = Append(@, Head(list))]}} : TRUE

\* kuo.py lines 48-55
kuo_remove_successors(G, list) ==
    [graph |-> kuo_remove_edges(G, list), count |-> Len(list)]

\* kuo.py lines 24-27, called n times (lines 90-91 and 122-123); the pop of
\* an empty list raises IndexError
RECURSIVE kuo_restore_edges(_, _)
kuo_restore_edges(G, n) ==
    IF n = 0 THEN [graph |-> G, raised |-> "none"]
    ELSE IF G.rstack = <<>> THEN [graph |-> G, raised |-> "IndexError"]
    ELSE CHOOSE R \in
            {kuo_restore_edges(G1, n - 1) :
                G1 \in {[G EXCEPT !.edges = @ \cup {G.rstack[Len(G.rstack)]},
                                  !.rstack = SubSeq(@, 1, Len(@) - 1)]}} : TRUE

\* kuo.py lines 71-77
kuo_impl_extend(G, s_i, list) ==
    kuo_remove_successors(
        [G EXCEPT !.sets = Append(@, s_i), !.reachable = @ \cup s_i], list)

\* kuo.py lines 87-91
kuo_impl_backtrack(G, s_i, edge_count) ==
    kuo_restore_edges(
        [G EXCEPT !.sets = SubSeq(@, 1, Len(@) - 1), !.reachable = @ \ s_i],
        edge_count)

\* kuo.py lines 106-110
kuo_run_extend(G, node, list) ==
    kuo_remove_successors(
        [G EXCEPT !.sets[1] = @ \cup {node}, !.reachable = @ \cup {node}], list)

\* kuo.py lines 120-123
kuo_run_backtrack(G, node, edge_count) ==
    kuo_restore_edges(
        [G EXCEPT !.sets[1] = @ \ {node}, !.reachable = @ \ {node}], edge_count)

\* a frame of kuo.py's run_combination; `tested` is history, kept in the
\* frame of the call made by kuos_algorithm: the sizes of G.sets[0] on which
\* that call has invoked implication so far
KuoRunFrame(kk, G) ==
    [fn |-> "run_combination", pcf |-> "entry", k |-> kk, candidates |-> <<>>,
     idx |-> 0, node |-> 0, s_i |-> {}, edge_count |-> 0, at_call |-> G,
     tested |-> {}]

\* kuo.py lines 128-137
KuoStart ==
    /\ pc = "start"
    /\ \E s_0 \in {kuo_zero_indegree(graph)} :
          /\ \E list \in SuccessorLists(graph, s_0) :
                graph' = kuo_remove_successors(
                            [graph EXCEPT !.sets = <<s_0>>,
                                          !.reachable = @ \cup s_0], list).graph
          /\ k' = Cardinality(s_0)
    /\ pc' = "loop"
    /\ UNCHANGED <<input, stack, ret, result, tried, api, marks>>

\* kuo.py lines 138-139, and the end of the function: once the range is
\* used up the function ends without a return statement, which returns None
KuoLoop ==
    /\ pc = "loop"
    /\ IF k < Cardinality(graph.nodes)
       THEN /\ stack' = <<KuoRunFrame(k, graph)>>
            /\ pc' = "call"
            /\ UNCHANGED result
       ELSE /\ result' = [driver |-> {}, completed |-> FALSE, via |-> "None"]
            /\ pc' = "done"
            /\ UNCHANGED stack
    /\ UNCHANGED <<graph, input, k, ret, tried, api, marks>>

\* kuo.py lines 139-141
KuoResume ==
    /\ pc = "call"
    /\ stack = <<>>
    /\ ret.fn = "run_combination"
    /\ tried' = Append(tried, [k |-> k, value |-> ret.value,
                               tested |-> ret.frame.tested])
    /\ IF ret.value
       THEN /\ result' = [driver |-> graph.sets[1], completed |-> TRUE, via |-> "found"]
            /\ pc' = "done"
            /\ UNCHANGED k
       ELSE /\ k' = k + 1
            /\ pc' = "loop"
            /\ UNCHANGED result
    /\ ret' = NoRet
    /\ UNCHANGED <<graph, input, stack, api, marks>>

\* kuo.py lines 104-124 from the i-th node of the loop on, with G the graph
\* at that point
KuoTryFrom(frame, i, G) ==
    IF i > Len(frame.candidates)
    THEN /\ graph' = G
         /\ stack' = Pop
         /\ ret' = [fn |-> frame.fn, value |-> FALSE, frame |-> frame]
    ELSE LET node == frame.candidates[i] IN
         \E list \in SuccessorLists(G, {node}) :
            \E r \in {kuo_run_extend(G, node, list)} :
            /\ graph' = r.graph
            /\ stack' = Append(SetTop([frame EXCEPT !.pcf = "wait", !.idx = i,
                                                    !.node = node,
                                                    !.edge_count = r.count]),
                               KuoRunFrame(frame.k - 1, r.graph))
            /\ ret' = NoRet

\* kuo.py lines 98-113: the call; the loop of line 104 walks over a set, in
\* any order
KuoRunCall ==
    /\ pc = "call"
    /\ stack # <<>>
    /\ Top.fn = "run_combination"
    /\ Top.pcf = "entry"
    /\ LET s_0 == graph.sets[1]
           k0 == Cardinality(s_0)
       IN IF Top.k - k0 = 0
          THEN /\ stack' = Append([stack EXCEPT ![1].tested = @ \cup {k0},
                                                ![Len(stack)].pcf = "tail"],
                                  ImplFrame(graph))
               /\ ret' = NoRet
               /\ UNCHANGED graph
          ELSE \E s_0_prime \in Orders(graph.nodes \ s_0) :
                  KuoTryFrom([Top EXCEPT !.candidates = s_0_prime], 1, graph)
    /\ UNCHANGED <<input, pc, k, result, tried, api, marks>>

\* kuo.py line 102: return implication(G, 1)
KuoRunTail ==
    /\ pc = "call"
    /\ stack # <<>>
    /\ Top.fn = "run_combination"
    /\ Top.pcf = "tail"
    /\ ret.fn = "implication"
    /\ Return(ret.value)
    /\ UNCHANGED <<graph, input, pc, k, result, tried, api, marks>>

\* kuo.py lines 113-124: the recursive call has returned
KuoRunResume ==
    /\ pc = "call"
    /\ stack # <<>>
    /\ Top.fn = "run_combination"
    /\ Top.pcf = "wait"
    /\ ret.fn = "run_combination"
    /\ IF ret.value
       THEN Return(TRUE) /\ UNCHANGED graph
       ELSE \E r \in {kuo_run_backtrack(graph, Top.node, Top.edge_count)} :
               KuoTryFrom(Top, Top.idx + 1, r.graph)
    /\ UNCHANGED <<input, pc, k, result, tried, api, marks>>

\* kuo.py lines 57-80 and 93-95: the call
KuoImplCall ==
    /\ pc = "call"
    /\ stack # <<>>
    /\ Top.fn = "implication"
    /\ Top.pcf = "entry"
    /\ IF Cardinality(graph.reachable) = Cardinality(graph.nodes)
       THEN Return(TRUE) /\ UNCHANGED graph
       ELSE \E s_i \in {kuo_zero_indegree(graph)} :
            IF s_i = {}
            THEN Return(FALSE) /\ UNCHANGED graph
            ELSE \E list \in SuccessorLists(graph, s_i) :
                    \E r \in {kuo_impl_extend(graph, s_i, list)} :
                    /\ graph' = r.graph
                    /\ stack' = Append(SetTop([Top EXCEPT !.pcf = "wait", !.s_i = s_i,
                                                          !.edge_count = r.count]),
                                       ImplFrame(r.graph))
                    /\ ret' = NoRet
    /\ UNCHANGED <<input, pc, k, result, tried, api, marks>>

\* kuo.py lines 80-92: the recursive call has returned
KuoImplResume ==
    /\ pc = "call"
    /\ stack # <<>>
    /\ Top.fn = "implication"
    /\ Top.pcf = "wait"
    /\ ret.fn = "implication"
    /\ IF ret.value
       THEN Return(TRUE) /\ UNCHANGED graph
       ELSE /\ graph' = kuo_impl_backtrack(graph, Top.s_i, Top.edge_count).graph
            /\ Return(FALSE)
    /\ UNCHANGED <<input, pc, k, result, tried, api, marks>>

\* kuo.py lines 36-46: the loader drops the edges from a node to itself
LoadedGraphs == {E \in SmallGraphs : \A e \in E : e[1] # e[2]}

InitKuo ==
    /\ \E E \in LoadedGraphs : graph = kuo_SGraph(E) /\ input = E
    /\ stack = <<>>
    /\ pc = "start"
    /\ k = 0
    /\ ret = NoRet
    /\ result = NoResult
    /\ tried = <<>>
    /\ api = NoApi
    /\ marks = <<>>

NextKuo ==
    \/ KuoStart
    \/ KuoLoop
    \/ KuoResume
    \/ KuoRunCall
    \/ KuoRunTail
    \/ KuoRunResume
    \/ KuoImplCall
    \/ KuoImplResume

SpecKuo == InitKuo /\ [][NextKuo]_vars

(***************************************************************************)
(* Claims                                                                  *)
(***************************************************************************)
\* C1: every call of run_combination that returns False leaves the graph
\* (edges, in-degree cache, reachable, sets and restore stack) exactly as it
\* was at the moment of the call.
C1_FailedRunRestores ==
    (ret.fn = "run_combination" /\ ~ret.value) => graph = ret.frame.at_call

\* a run_combination that added a candidate, removed edges for it, and failed
C1_Witness ==
    /\ ret.fn = "run_combination"
    /\ ~ret.value
    /\ ret.frame.pcf = "wait"
    /\ ret.frame.edge_count > 0
    /\ graph.rstack # <<>>

\* C2: if kuos_algorithm returns (D, True), the cascade run on a fresh copy
\* of the input graph with reachable = D and D's outgoing edges removed
\* returns True and reaches every node.
C2_DriverSetValid ==
    (Returned /\ result.completed) => Covers(result.driver)

\* a completed search that had to add a candidate to S0
C2_Witness ==
    /\ Returned
    /\ result.completed
    /\ result.driver # S0
    /\ result.driver # graph.nodes

\* C3: run_combination is called for k = k0, k0+1, ... without a gap; every
\* call but the last returned False, and when (D, True) is returned |D| is
\* the k of the last call, the first that returned True.
C3_EscalationOrder ==
    /\ \A i \in 1..Len(tried) :
          /\ tried[i].k = K0 + i - 1
          /\ i < Len(tried) => ~tried[i].value
    /\ pc = "call" => k = K0 + Len(tried)
    /\ (Returned /\ result.completed) =>
          /\ tried # <<>>
          /\ tried[Len(tried)].value
          /\ Cardinality(result.driver) = tried[Len(tried)].k

\* a search that succeeded at its third size
C3_Witness ==
    /\ Returned
    /\ result.completed
    /\ Len(tried) = 3

\* the node sets smaller than D that contain s0 and from which the cascade
\* reaches every node
SmallerDriverSets(D) ==
    {S \in SUBSET graph.nodes :
        S0 \subseteq S /\ Cardinality(S) < Cardinality(D) /\ Covers(S)}

\* C4 as stated: a returned (D, True) has minimum size among the node sets
\* that contain s0 and from which the cascade reaches every node.
C4_Original ==
    (Returned /\ result.completed) => SmallerDriverSets(result.driver) = {}

\* C4 amended: the same, for graphs with at most BufferCap + 1 nodes outside
\* s0 (find_candidates then never leaves a candidate out).
C4_MinimumWhenNotTruncated ==
    (Returned /\ result.completed
        /\ Cardinality(graph.nodes \ S0) <= BufferCap + 1)
    => SmallerDriverSets(result.driver) = {}

\* a completed search with two candidates added, where no smaller set works
C4_Witness ==
    /\ Returned
    /\ result.completed
    /\ Cardinality(graph.nodes \ S0) <= BufferCap + 1
    /\ Cardinality(result.driver) = K0 + 2

\* C5: at every stable point of a search the cached in-degree of every node
\* equals the number of edges into it that are present.
C5_CacheIsInDegree ==
    \A v \in graph.nodes : graph.cache[v] = in_degree(graph, v)

\* inside a search, after edges were removed and some restored again
C5_Witness ==
    /\ pc = "call"
    /\ ret.fn = "implication"
    /\ ~ret.value
    /\ ret.frame.edge_count > 0
    /\ graph.rstack # <<>>

\* C6: after removals and restores in LIFO order, whenever the restore stack
\* is back at an earlier height the edge set and the in-degree cache are
\* those of that earlier moment; with as many restores as removals they are
\* those before the first removal.
C6_RestorationSymmetry ==
    pc = "api" => marks[Len(graph.rstack) + 1] = StoreOf(graph)

\* two or more removals, all restored
C6_Witness ==
    /\ pc = "api"
    /\ api.op = "restore_edge"
    /\ api.value = "edge"
    /\ api.peak >= 2
    /\ graph.rstack = <<>>

\* C7: the search terminates; unless the budget expired it returns
\* completed = True with at most |nodes| drivers; a top-level
\* run_combination(|nodes|) returns True with S0 the whole node set, and
\* the final `return set(), False` is not reached.
C7_Terminates ==
    /\ <>Returned
    /\ [](Returned =>
            /\ result.via # "exhausted"
            /\ result.via # "timeout" =>
                  /\ result.completed
                  /\ Cardinality(result.driver) <= Cardinality(graph.nodes))
    /\ []((stack = <<>> /\ ret.fn = "run_combination"
              /\ ret.frame.k = Cardinality(graph.nodes))
            => ret.value /\ graph.sets[1] = graph.nodes)

\* a graph without a zero-in-degree node, solved by the whole node set
C7_Witness ==
    /\ Returned
    /\ result.completed
    /\ S0 = {}
    /\ Cardinality(graph.nodes) >= 2
    /\ result.driver = graph.nodes

\* the union of the levels
RECURSIVE UnionOf(_)
UnionOf(levels) ==
    IF levels = <<>> THEN {} ELSE Head(levels) \cup UnionOf(Tail(levels))

\* C8: at every stable point graph.reachable is the union of the sets in
\* graph.sets, and those sets are pairwise disjoint.
C8_LevelsPartitionReachable ==
    /\ graph.reachable = UnionOf(graph.sets)
    /\ \A i \in 1..Len(graph.sets) : \A j \in 1..Len(graph.sets) :
          i # j => graph.sets[i] \cap graph.sets[j] = {}

\* a candidate in S0 and two cascade levels above it
C8_Witness ==
    /\ pc = "call"
    /\ Len(graph.sets) >= 3
    /\ graph.sets[1] # S0

\* C9: every call of implication that returns False, at whatever depth,
\* leaves the graph exactly as it was at the call.
C9_FailedImplicationRestores ==
    (ret.fn = "implication" /\ ~ret.value) => graph = ret.frame.at_call

\* an implication that appended a level two or more levels below the
\* dead end's caller, removed edges, and unwound
C9_Witness ==
    /\ ret.fn = "implication"
    /\ ~ret.value
    /\ ret.frame.pcf = "wait"
    /\ ret.frame.edge_count > 0
    /\ Len(stack) >= 3
    /\ Top.fn = "implication"

C11_MissingEdgeRaises ==
    (api.op = "remove_edge" /\ api.absent) =>
        /\ api.raised # "none"
        /\ graph = api.before

\* remove_edge of a missing edge while other edges are on the restore stack
C11_Witness ==
    /\ api.op = "remove_edge"
    /\ api.absent
    /\ api.before.rstack # <<>>
    /\ api.before.edges # {}

\* C12: add_edge(u, v) for an edge not yet present inserts the edge and
\* increases the cached in-degree of v by one, so that after any sequence of
\* add_edge, remove_edge and restore_edge calls the cached in-degree of every
\* node equals its number of incoming edges.
C12_Original ==
    /\ (api.op = "add_edge" /\ api.absent) =>
           \E e \in graph.edges \ api.before.edges :
               /\ graph.edges = api.before.edges \cup {e}
               /\ graph.cache[e[2]] = api.before.cache[e[2]] + 1
    /\ pc = "api" =>
           \A n \in graph.nodes : graph.cache[n] = in_degree(graph, n)

\* C13: the budget is compared with the clock at the top of an escalation
\* iteration, before run_combination(k): a return with completed = False is
\* always the timeout return, it hands back graph.sets[0], it happens with no
\* call in progress, and run_combination has been called for the sizes before
\* k only, each of which had failed.
C13_TimeoutOnlyAtLoopTop ==
    (Returned /\ ~result.completed) =>
        /\ result.via = "timeout"
        /\ result.driver = graph.sets[1]
        /\ stack = <<>>
        /\ Len(tried) = k - K0
        /\ \A i \in 1..Len(tried) : tried[i].k < k /\ ~tried[i].value

\* the budget expires at the top of the second iteration
C13_Witness ==
    /\ Returned
    /\ result.via = "timeout"
    /\ Len(tried) = 1
    /\ k = K0 + 1

\* The run_combination frame that made the call on top of the stack: it holds
\* the list find_candidates returned at its call (candidates) and the graph of
\* that call (at_call).  Every frame of a loop is in this position when its
\* loop starts, and neither field changes afterwards.
RankedFrames ==
    {i \in {Len(stack) - 1} :
        i >= 1 /\ stack[i].fn = "run_combination" /\ stack[i].pcf = "wait"}

\* out-degree minus in-degree plus twice the successors not yet reachable
C14_Score(G, n) ==
    Cardinality({e \in G.edges : e[1] = n})
    - Cardinality({e \in G.edges : e[2] = n})
    + 2 * Cardinality({e[2] : e \in {d \in G.edges : d[1] = n}} \ G.reachable)

\* C14: find_candidates(graph, need) returns a duplicate-free sequence of
\* nodes outside graph.reachable, of length min(E, need + min(10, E)) for E
\* eligible nodes, in non-increasing order of score, and every eligible node
\* left out scores no more than any node returned.
C14_RankedCandidates ==
    \A f \in RankedFrames :
      \A G \in {stack[f].at_call} : \A c \in {stack[f].candidates} :
        \A eligible \in {G.nodes \ G.reachable} :
          \A score \in {<<eligible, {<<n, C14_Score(G, n)>> : n \in eligible}>>} :
            LET need == stack[f].k - Cardinality(G.sets[1])
                E == Cardinality(eligible)
                returned == {c[i] : i \in 1..Len(c)}
                Of(n) == (CHOOSE p \in score[2] : p[1] = n)[2]
            IN /\ Len(c) = Min(E, need + Min(10, E))
               /\ returned \subseteq eligible
               /\ Cardinality(returned) = Len(c)
               /\ \A i, j \in 1..Len(c) : i < j => Of(c[i]) >= Of(c[j])
               /\ \A n \in eligible \ returned : \A m \in returned :
                     Of(n) <= Of(m)

\* twelve eligible nodes and need = 1: eleven are returned, one is left out
C14_Witness ==
    \E f \in RankedFrames :
        /\ Cardinality(stack[f].at_call.nodes \ stack[f].at_call.reachable) = 12
        /\ Len(stack[f].candidates) = 11
        /\ \E i, j \in 1..11 :
              C14_Score(stack[f].at_call, stack[f].candidates[i])
                 > C14_Score(stack[f].at_call, stack[f].candidates[j])

\* The edge list is given in ascending order: the place of an edge in it
EdgeRank(E, e) ==
    Cardinality({d \in E : d[1] < e[1] \/ (d[1] = e[1] /\ d[2] < e[2])})

\* networkx inserts the nodes edge by edge, source before target: the smaller
\* the index, the earlier the node was inserted
insertion_index(E, n) ==
    LET seen == {2 * EdgeRank(E, e) + (IF e[1] = n THEN 0 ELSE 1) :
                    e \in {d \in E : d[1] = n \/ d[2] = n}}
    IN CHOOSE x \in seen : \A y \in seen : x <= y

\* C15 (as stated): candidates of equal score are returned in the order in
\* which their nodes were inserted into the graph.
C15_Original ==
    \A f \in RankedFrames :
      \A G \in {stack[f].at_call} : \A c \in {stack[f].candidates} :
        \A i, j \in 1..Len(c) :
            (i < j /\ C14_Score(G, c[i]) = C14_Score(G, c[j])) =>
                insertion_index(input, c[i]) < insertion_index(input, c[j])

\* C15 (amended): candidates of equal score are returned in descending order
\* of node identifier.
C15_TiesByNodeDescending ==
    \A f \in RankedFrames :
      \A G \in {stack[f].at_call} : \A c \in {stack[f].candidates} :
        \A i, j \in 1..Len(c) :
            (i < j /\ C14_Score(G, c[i]) = C14_Score(G, c[j])) => c[i] > c[j]

\* two candidates of equal score, the one inserted later is returned first
C15_Witness ==
    \E f \in RankedFrames :
        \E i, j \in 1..Len(stack[f].candidates) :
            /\ i < j
            /\ C14_Score(stack[f].at_call, stack[f].candidates[i])
                  = C14_Score(stack[f].at_call, stack[f].candidates[j])
            /\ insertion_index(input, stack[f].candidates[i])
                  > insertion_index(input, stack[f].candidates[j])

\* no cycle: every non-empty set of nodes has a node without a predecessor
\* inside the set
Acyclic(E) ==
    \A S \in SUBSET EndPoints(E) :
        S # {} => \E n \in S : \A m \in S : <<m, n>> \notin E

\* the nodes without an incoming edge in the input graph
Sources(E) == {n \in EndPoints(E) : \A e \in E : e[2] # n}

\* C16: on an acyclic graph with at least one node the search succeeds at the
\* first iteration k = k0: no candidate is ever added, the result is
\* (s0, True) and in the end every node is reachable.
C16_AcyclicSucceedsAtK0 ==
    (pc \in {"call", "done"} /\ result.via # "timeout"
        /\ input # {} /\ Acyclic(input)) =>
        /\ k = Cardinality(Sources(input))
        /\ \A i \in 1..Len(stack) : stack[i].pcf # "wait" \/ stack[i].fn = "implication"
        /\ graph.sets[1] = Sources(input)
        /\ Returned =>
              /\ result = [driver |-> Sources(input), completed |-> TRUE,
                            via |-> "found"]
              /\ tried = <<[k |-> Cardinality(Sources(input)), value |-> TRUE]>>
              /\ graph.reachable = graph.nodes

\* the example A -> B, B -> C, D -> C has returned ({A, D}, True)
C16_Witness ==
    /\ input = ExampleGraph
    /\ Returned
    /\ result.completed
    /\ result.driver = {1, 4}
    /\ Len(graph.sets) = 3

\* the restore_edge calls that the frames below position i + 1 still owe
RECURSIVE PendingRestores(_)
PendingRestores(i) ==
    IF i = 0 THEN 0 ELSE stack[i].edge_count + PendingRestores(i - 1)

\* C19: at every stable point of a search an input edge (u, v) is in the
\* graph iff u is not in graph.reachable, and the restore stack holds exactly
\* the input edges that are not in the graph, each once; the frames never
\* owe more restore_edge calls than the stack has entries, and a completed
\* search leaves a graph without edges.
C19_EdgesOfUnreachedSources ==
    pc \in {"start", "loop", "call", "done"} =>
        /\ graph.edges \subseteq input
        /\ \A e \in input : e \in graph.edges <=> e[1] \notin graph.reachable
        /\ {graph.rstack[i] : i \in 1..Len(graph.rstack)} = input \ graph.edges
        /\ Len(graph.rstack) = Cardinality(input \ graph.edges)
        /\ PendingRestores(Len(stack)) <= Len(graph.rstack)
        /\ (Returned /\ result.completed) => graph.edges = {}

\* in the middle of a search: edges removed by two nested frames, others
\* still in the graph
C19_Witness ==
    /\ pc = "call"
    /\ Len(stack) >= 3
    /\ PendingRestores(Len(stack)) >= 2
    /\ graph.edges # {}
    /\ Len(graph.rstack) > PendingRestores(Len(stack))

\* C20: a return with completed = False on expiry of the budget hands back
\* exactly s0, with graph.sets = [s0], graph.reachable = s0 and the edges of
\* the input graph minus the outgoing edges of s0.
C20_TimeoutReturnsS0 ==
    (Returned /\ result.via = "timeout") =>
        /\ ~result.completed
        /\ result.driver = Sources(input)
        /\ graph.sets = <<Sources(input)>>
        /\ graph.reachable = Sources(input)
        /\ graph.edges = {e \in input : e[1] \notin Sources(input)}

\* the budget expires after two sizes have been searched without success, on
\* a graph with a non-empty s0
C20_Witness ==
    /\ Returned
    /\ result.via = "timeout"
    /\ Len(tried) = 2
    /\ Sources(input) # {}
    /\ graph.edges # {}

\* C17: kuo.py's kuos_algorithm tries every size from k0 to the number of
\* nodes, so on every graph with at least one node (the cycle A -> B, B -> A
\* included) it returns a node set from which the cascade reaches every node,
\* and never None.
C17_Original ==
    (Returned /\ input # {}) =>
        /\ result.via = "found"
        /\ Covers(result.driver)

\* C18: when kuos_algorithm of kuo.py calls run_combination(G, k), the
\* cascade is invoked only on sets G.sets[0] of exactly k nodes, and for
\* every k > k0 on at least one such set.
C18_Original ==
    /\ (pc = "call" /\ stack # <<>>) => stack[1].tested \subseteq {stack[1].k}
    /\ \A i \in 1..Len(tried) :
          /\ tried[i].tested \subseteq {tried[i].k}
          /\ tried[i].k > K0 => tried[i].k \in tried[i].tested

====
